---- MODULE Spec2Model ----
(***************************************************************************)
(* Model of scripts/depth_parallax.py: one run of the process, from main() *)
(* through generate_parallax_video() to the JSON line on standard output.  *)
(*                                                                         *)
(* Python floats are modelled as fixed-point integers with SCALE units per *)
(* 1.0 (so 1.5 is 1500000); int() is truncation toward zero.  The external *)
(* collaborators (PIL, the depth model, OpenCV, ffmpeg) are modelled by    *)
(* their outcome only: they succeed or raise, chosen nondeterministically. *)
(***************************************************************************)
EXTENDS Integers, Sequences, FiniteSets

\* ------------------------------------------------------------------ bounds
\* Largest duration option tried, in half seconds (durations 0.0, 0.5, ...).
MaxHalfSeconds == 4
\* The largest source-image size tried (the others are 3 x 2 and 101 x 76).
MaxWidth == 641
MaxHeight == 480

\* ----------------------------------------------------- float arithmetic
SCALE == 1000000
HALF == SCALE \div 2
\* np.pi
PI == 3141593
\* number of terms of the cosine series kept
CosTerms == 7

Abs(x) == IF x < 0 THEN -x ELSE x
Sign(x) == IF x < 0 THEN -1 ELSE 1
Max(a, b) == IF a >= b THEN a ELSE b
Min(a, b) == IF a <= b THEN a ELSE b

\* a * b of two non-negative fixed-point numbers, without leaving 32 bits
MulNat(a, b) ==
    LET ah == a \div 1000
        al == a % 1000
        bh == b \div 1000
        bl == b % 1000
    IN  ah * bh + ((ah * bl + al * bh + ((al * bl) \div 1000)) \div 1000)

\* float * float
MulF(a, b) == Sign(a) * Sign(b) * MulNat(Abs(a), Abs(b))

\* int(x) of a float x: truncation toward zero
IntF(x) == Sign(x) * (Abs(x) \div SCALE)

\* float(n) of an integer n
FloatOf(n) == n * SCALE

RECURSIVE CosSeries(_, _)
\* 1 - y2/(1*2) * (1 - y2/(3*4) * (1 - y2/(5*6) * ...)), y2 = y*y
CosSeries(y2, n) ==
    IF n > CosTerms THEN SCALE
    ELSE SCALE - (MulF(y2, CosSeries(y2, n + 1)) \div ((2 * n - 1) * (2 * n)))

\* np.cos(x) for 0 <= x <= pi, reduced to [0, pi/2]
np_cos(x) ==
    IF 2 * x > PI THEN -CosSeries(MulF(PI - x, PI - x), 1)
    ELSE CosSeries(MulF(x, x), 1)

\* A reversed curve: 1 at t = 0 and 0 at t = 1.
ease_reversed(t) == (SCALE + np_cos(MulF(t, PI))) \div 2

\* A curve that swings there and back: 0 at t = 0, 1 at t = 0.5, 0 at t = 1.
ease_there_and_back(t) ==
    LET u == IF 2 * t > SCALE THEN 2 * (SCALE - t) ELSE 2 * t
    IN  (SCALE - np_cos(MulF(u, PI))) \div 2

\* def ease_in_out_sine(t): return (1 - np.cos(t * np.pi)) / 2
\* The result is within a few units of 1/SCALE of the float.  Where the true
\* value is 1/4, 1/2 or 3/4 the float lies one ulp below it, so int() of a
\* speed times it may be one pixel less than here.
ease_in_out_sine(t) == (SCALE - np_cos(MulF(t, PI))) \div 2

\* --------------------------------------------------------------- options
Directions == {"left", "right", "up", "down", "other"}
Intensities == {"subtle", "normal", "dramatic", "other"}
Zooms == {"none", "in", "out", "other"}
FpsValues == {2, 24}
Durations == {d * HALF : d \in 0..MaxHalfSeconds}
\* img.size of the source image: odd and even sides, at least 2 pixels, so
\* that the even output size is not empty
ImageSizes == {<<3, 2>>, <<101, 76>>, <<MaxWidth, MaxHeight>>}
\* what ffmpeg may write to its standard error
Diagnostics == {"diag_a", "diag_b"}
\* exit statuses of ffmpeg
ReturnCodes == {0, 1, 2}

\* A fallback of 0.0 for an unrecognized intensity.
IntensityMultZeroDefault(intensity) ==
    CASE intensity = "subtle" -> HALF
      [] intensity = "normal" -> SCALE
      [] intensity = "dramatic" -> SCALE + HALF
      [] OTHER -> 0

\* {"subtle": 0.5, "normal": 1.0, "dramatic": 1.5}.get(intensity, 1.0)
IntensityMult(intensity) ==
    CASE intensity = "subtle" -> HALF
      [] intensity = "normal" -> SCALE
      [] intensity = "dramatic" -> SCALE + HALF
      [] OTHER -> SCALE

\* bg_speed = 15 * intensity_mult
BgSpeed(mult) == 15 * mult
\* fg_speed = 40 * intensity_mult
FgSpeed(mult) == 40 * mult

\* The margin taken from the smaller speed.
PadMin(fg, bg) == IntF(Min(fg, bg) * 3)

\* pad_x = int(max(fg_speed, bg_speed) * 3)
Pad(fg, bg) == IntF(Max(fg, bg) * 3)

\* bg_scale = 1.1
bg_scale == 1100000

\* bg_scaled_w = int(padded_w * bg_scale), padded_w = width + 2 * pad
BgScaled(size, pad) == IntF((size + 2 * pad) * bg_scale)

\* The offset of the far edge instead of the centre.
BgCenterOffsetNoHalf(scaled, size) == scaled - size

\* bg_center_offset_x = (bg_scaled_w - width) // 2
BgCenterOffset(scaled, size) == (scaled - size) \div 2

\* Direction vectors
Dx(direction) ==
    CASE direction = "left" -> -1
      [] direction = "right" -> 1
      [] OTHER -> 0
Dy(direction) ==
    CASE direction = "up" -> -1
      [] direction = "down" -> 1
      [] OTHER -> 0

\* zoom_amount = 0.15 * intensity_mult
ZoomAmount(mult) == MulF(150000, mult)
ZoomStart(zoom, mult) == IF zoom = "out" THEN SCALE + ZoomAmount(mult) ELSE SCALE
\* A zoom out that ends below the rest scale instead of starting above it.
ZoomEndBelowOne(zoom, mult) ==
    CASE zoom = "in" -> SCALE + ZoomAmount(mult)
      [] zoom = "out" -> SCALE - ZoomAmount(mult)
      [] OTHER -> SCALE

ZoomEnd(zoom, mult) == IF zoom = "in" THEN SCALE + ZoomAmount(mult) ELSE SCALE

\* One frame too many.
TotalFramesPlusOne(dur, rate) == IntF(dur * rate) + 1

\* total_frames = int(duration * fps)
TotalFrames(dur, rate) == IntF(dur * rate)

\* t = frame_idx / max(total_frames - 1, 1)
Progress(idx, total) == FloatOf(idx) \div Max(total - 1, 1)

\* int(dx * speed * eased_t)
Offset(d, speed, e) == IntF(MulF(d * speed, e))

\* max(0, min(crop, bg_scaled - size))
Clamp(crop, scaled, size) == Max(0, Min(crop, scaled - size))

\* f"FFmpeg failed: {result.stderr}"
FFmpegFailed(diag) == <<"FFmpeg failed: ", diag>>

\* ------------------------------------------------------------------ state
VARIABLES
    pc,               \* where the process is
    argv_len,         \* len(sys.argv)
    direction, intensity, duration, fps, zoom,   \* the options of main()
    width, height,    \* even output size
    depth_estimator,  \* the global _depth_estimator: "None" or "loaded"
    model_calls,      \* calls of estimator(image)
    encoder_calls,    \* calls of subprocess.run(ffmpeg_cmd)
    temp_dir,         \* "none", "live" or "deleted"
    frame_files,      \* indices of the frame files in temp_dir
    bg_speed, fg_speed, pad_x, pad_y,
    bg_scaled_w, bg_scaled_h, bg_center_offset_x, bg_center_offset_y,
    dx, dy, zoom_start, zoom_end, total_frames,
    frame_idx,        \* next index of the loop over range(total_frames)
    frame_paths,      \* indices written, in the order written
    eased_t, current_zoom,
    bg_offset_x, bg_offset_y, fg_offset_x, fg_offset_y,
    crop_x, crop_y,
    zoomed_w, zoomed_h, left, top,
    returncode, result_stderr,    \* result of subprocess.run
    exc,              \* str(e) of the exception in flight, <<>> if none
    stdout,           \* the JSON lines printed to standard output
    uncaught,         \* an exception left main() (traceback on stderr)
    exit_code         \* -1 while running

optVars == <<direction, intensity, duration, fps, zoom>>
sizeVars == <<width, height>>
countVars == <<depth_estimator, model_calls, encoder_calls>>
dirVars == <<temp_dir, frame_files>>
canvasVars == <<bg_speed, fg_speed, pad_x, pad_y, bg_scaled_w, bg_scaled_h,
                bg_center_offset_x, bg_center_offset_y, dx, dy,
                zoom_start, zoom_end, total_frames>>
frameVars == <<frame_idx, frame_paths, eased_t, current_zoom,
               bg_offset_x, bg_offset_y, fg_offset_x, fg_offset_y,
               crop_x, crop_y, zoomed_w, zoomed_h, left, top>>
resultVars == <<returncode, result_stderr>>
outVars == <<stdout, uncaught, exit_code>>

vars == <<pc, argv_len, optVars, sizeVars, countVars, dirVars, canvasVars,
          frameVars, resultVars, exc, outVars>>

Init ==
    /\ pc = "main"
    /\ argv_len \in 1..4
    /\ direction = "right" /\ intensity = "normal" /\ duration = 5 * SCALE
    /\ fps = 24 /\ zoom = "none"
    /\ width = 0 /\ height = 0
    /\ depth_estimator = "None" /\ model_calls = 0 /\ encoder_calls = 0
    /\ temp_dir = "none" /\ frame_files = {}
    /\ bg_speed = 0 /\ fg_speed = 0 /\ pad_x = 0 /\ pad_y = 0
    /\ bg_scaled_w = 0 /\ bg_scaled_h = 0
    /\ bg_center_offset_x = 0 /\ bg_center_offset_y = 0
    /\ dx = 0 /\ dy = 0 /\ zoom_start = 0 /\ zoom_end = 0 /\ total_frames = 0
    /\ frame_idx = 0 /\ frame_paths = <<>> /\ eased_t = 0 /\ current_zoom = 0
    /\ bg_offset_x = 0 /\ bg_offset_y = 0 /\ fg_offset_x = 0 /\ fg_offset_y = 0
    /\ crop_x = 0 /\ crop_y = 0
    /\ zoomed_w = 0 /\ zoomed_h = 0 /\ left = 0 /\ top = 0
    /\ returncode = 0 /\ result_stderr = ""
    /\ exc = <<>>
    /\ stdout = <<>> /\ uncaught = FALSE /\ exit_code = -1

\* ------------------------------------------------------------------ main()
\* if len(sys.argv) < 3: usage on stderr, sys.exit(1)
Usage ==
    /\ pc = "main" /\ argv_len < 3
    /\ pc' = "exit" /\ exit_code' = 1
    /\ UNCHANGED <<argv_len, optVars, sizeVars, countVars, dirVars, canvasVars,
                   frameVars, resultVars, exc, stdout, uncaught>>

\* options = {}; the .get() defaults
NoOptions ==
    /\ pc = "main" /\ argv_len = 3
    /\ pc' = "generate"
    /\ UNCHANGED <<argv_len, optVars, sizeVars, countVars, dirVars, canvasVars,
                   frameVars, resultVars, exc, outVars>>

\* options = json.loads(sys.argv[3]) of a well-formed option object
ParseOptions ==
    /\ pc = "main" /\ argv_len > 3
    /\ \E d \in Directions, i \in Intensities, z \in Zooms,
          dur \in Durations, f \in FpsValues :
          /\ direction' = d /\ intensity' = i /\ zoom' = z
          /\ duration' = dur /\ fps' = f
    /\ pc' = "generate"
    /\ UNCHANGED <<argv_len, sizeVars, countVars, dirVars, canvasVars,
                   frameVars, resultVars, exc, outVars>>

\* json.loads(sys.argv[3]) of a malformed string: JSONDecodeError is raised
\* before the try statement is entered, so nothing catches it
ParseOptionsMalformed ==
    /\ pc = "main" /\ argv_len > 3
    /\ exc' = <<"JSONDecodeError">>
    /\ uncaught' = TRUE
    /\ pc' = "exit" /\ exit_code' = 1
    /\ UNCHANGED <<argv_len, optVars, sizeVars, countVars, dirVars, canvasVars,
                   frameVars, resultVars, stdout>>

\* print(json.dumps({"success": True, "output": output_path}))
MainSuccess ==
    /\ pc = "returned"
    /\ stdout' = Append(stdout, [success |-> TRUE, output |-> "output_path"])
    /\ pc' = "exit" /\ exit_code' = 0
    /\ UNCHANGED <<argv_len, optVars, sizeVars, countVars, dirVars, canvasVars,
                   frameVars, resultVars, exc, uncaught>>

\* except Exception as e: print(json.dumps({"success": False, ...})); sys.exit(1)
MainExcept ==
    /\ pc = "raised"
    /\ stdout' = Append(stdout, [success |-> FALSE, error |-> exc])
    /\ pc' = "exit" /\ exit_code' = 1
    /\ UNCHANGED <<argv_len, optVars, sizeVars, countVars, dirVars, canvasVars,
                   frameVars, resultVars, exc, uncaught>>

\* ------------------------------------------------ generate_parallax_video()
\* with Image.open(image_path) as img: width, height rounded down to even
OpenImage ==
    /\ pc = "generate"
    /\ \/ \E sz \in ImageSizes :
             /\ width' = sz[1] - (sz[1] % 2)
             /\ height' = sz[2] - (sz[2] % 2)
             /\ pc' = "load_model"
             /\ exc' = exc
       \/ /\ exc' = <<"cannot identify image file">>
          /\ pc' = "raised"
          /\ UNCHANGED sizeVars
    /\ UNCHANGED <<argv_len, optVars, countVars, dirVars, canvasVars,
                   frameVars, resultVars, outVars>>

\* estimate_depth: estimator = get_depth_estimator()
GetDepthEstimator ==
    /\ pc = "load_model"
    /\ \/ /\ depth_estimator' = "loaded"
          /\ pc' = "estimate"
          /\ exc' = exc
       \/ /\ exc' = <<"model load failed">>
          /\ pc' = "raised"
          /\ UNCHANGED depth_estimator
    /\ UNCHANGED <<argv_len, optVars, sizeVars, model_calls, encoder_calls,
                   dirVars, canvasVars, frameVars, resultVars, outVars>>

\* The depth model called again after it failed.
EstimateDepthRetry ==
    /\ pc = "estimate" /\ model_calls < 3
    /\ model_calls' = model_calls + 1
    /\ \/ pc' = "tempdir"
       \/ pc' = "estimate"
    /\ UNCHANGED <<argv_len, optVars, sizeVars, depth_estimator, encoder_calls,
                   dirVars, canvasVars, frameVars, resultVars, exc, outVars>>

\* estimate_depth: result = estimator(image), then the normalisation
EstimateDepth ==
    /\ pc = "estimate"
    /\ model_calls' = model_calls + 1
    /\ \/ /\ pc' = "tempdir"
          /\ exc' = exc
       \/ /\ exc' = <<"depth estimation failed">>
          /\ pc' = "raised"
    /\ UNCHANGED <<argv_len, optVars, sizeVars, depth_estimator, encoder_calls,
                   dirVars, canvasVars, frameVars, resultVars, outVars>>

\* with tempfile.TemporaryDirectory() as temp_dir:
EnterTempDir ==
    /\ pc = "tempdir"
    /\ temp_dir' = "live" /\ frame_files' = {}
    /\ pc' = "build"
    /\ UNCHANGED <<argv_len, optVars, sizeVars, countVars, canvasVars,
                   frameVars, resultVars, exc, outVars>>

\* The directory left behind when the block is left.
TemporaryDirectoryLeak == UNCHANGED dirVars

\* TemporaryDirectory.__exit__: the directory and everything in it is removed
TemporaryDirectoryExit == temp_dir' = "deleted" /\ frame_files' = {}

\* lines 137-257: mask, layers, canvas and the motion parameters
BuildLayers ==
    /\ pc = "build"
    /\ \/ LET mult == IntensityMult(intensity)
              bg == BgSpeed(mult)
              fg == FgSpeed(mult)
              px == Pad(fg, bg)
              py == Pad(fg, bg)
              sw == BgScaled(width, px)
              sh == BgScaled(height, py)
          IN  /\ bg_speed' = bg /\ fg_speed' = fg
              /\ pad_x' = px /\ pad_y' = py
              /\ bg_scaled_w' = sw /\ bg_scaled_h' = sh
              /\ bg_center_offset_x' = BgCenterOffset(sw, width)
              /\ bg_center_offset_y' = BgCenterOffset(sh, height)
              /\ dx' = Dx(direction) /\ dy' = Dy(direction)
              /\ zoom_start' = ZoomStart(zoom, mult)
              /\ zoom_end' = ZoomEnd(zoom, mult)
              /\ total_frames' = TotalFrames(duration, fps)
              /\ pc' = "frames"
              /\ UNCHANGED <<dirVars, exc>>
       \/ /\ exc' = <<"layer construction failed">>
          /\ TemporaryDirectoryExit
          /\ pc' = "raised"
          /\ UNCHANGED canvasVars
    /\ UNCHANGED <<argv_len, optVars, sizeVars, countVars, frameVars,
                   resultVars, outVars>>

\* one pass of: for frame_idx in range(total_frames)
RenderFrame ==
    /\ pc = "frames" /\ frame_idx < total_frames
    /\ \/ LET t == Progress(frame_idx, total_frames)
              e == ease_in_out_sine(t)
              z == zoom_start + MulF(zoom_end - zoom_start, e)
              bx == Offset(dx, bg_speed, e)
              by == Offset(dy, bg_speed, e)
              zw == IntF(width * z)
              zh == IntF(height * z)
          IN  /\ eased_t' = e
              /\ current_zoom' = z
              /\ bg_offset_x' = bx /\ bg_offset_y' = by
              /\ fg_offset_x' = Offset(dx, fg_speed, e)
              /\ fg_offset_y' = Offset(dy, fg_speed, e)
              /\ crop_x' = Clamp(bg_center_offset_x - bx, bg_scaled_w, width)
              /\ crop_y' = Clamp(bg_center_offset_y - by, bg_scaled_h, height)
              /\ IF z # SCALE
                 THEN /\ zoomed_w' = zw /\ zoomed_h' = zh
                      /\ left' = (zw - width) \div 2
                      /\ top' = (zh - height) \div 2
                 ELSE UNCHANGED <<zoomed_w, zoomed_h, left, top>>
              /\ frame_files' = frame_files \cup {frame_idx}
              /\ frame_paths' = Append(frame_paths, frame_idx)
              /\ frame_idx' = frame_idx + 1
              /\ pc' = "frames"
              /\ UNCHANGED <<temp_dir, exc>>
       \/ /\ exc' = <<"frame rendering failed">>
          /\ TemporaryDirectoryExit
          /\ pc' = "raised"
          /\ UNCHANGED frameVars
    /\ UNCHANGED <<argv_len, optVars, sizeVars, countVars, canvasVars,
                   resultVars, outVars>>

\* result = subprocess.run(ffmpeg_cmd, capture_output=True, text=True)
Encode ==
    /\ pc = "frames" /\ frame_idx >= total_frames
    /\ encoder_calls' = encoder_calls + 1
    /\ \E rc \in ReturnCodes, diag \in Diagnostics :
          /\ returncode' = rc
          /\ result_stderr' = diag
    /\ pc' = "encoded"
    /\ UNCHANGED <<argv_len, optVars, sizeVars, depth_estimator, model_calls,
                   dirVars, canvasVars, frameVars, exc, outVars>>

\* The exit status of the encoder not looked at.
CheckResultIgnored ==
    /\ pc = "encoded"
    /\ TemporaryDirectoryExit
    /\ pc' = "returned"
    /\ UNCHANGED <<argv_len, optVars, sizeVars, countVars, canvasVars,
                   frameVars, resultVars, exc, outVars>>

\* if result.returncode != 0: raise RuntimeError(...); else leave the block
CheckResult ==
    /\ pc = "encoded"
    /\ IF returncode # 0
       THEN /\ exc' = FFmpegFailed(result_stderr)
            /\ pc' = "raised"
       ELSE /\ exc' = exc
            /\ pc' = "returned"
    /\ TemporaryDirectoryExit
    /\ UNCHANGED <<argv_len, optVars, sizeVars, countVars, canvasVars,
                   frameVars, resultVars, outVars>>

Next ==
    \/ Usage
    \/ NoOptions
    \/ ParseOptions
    \/ ParseOptionsMalformed
    \/ OpenImage
    \/ GetDepthEstimator
    \/ EstimateDepth
    \/ EnterTempDir
    \/ BuildLayers
    \/ RenderFrame
    \/ Encode
    \/ CheckResult
    \/ MainSuccess
    \/ MainExcept

Spec == Init /\ [][Next]_vars

\* ------------------------------------------------------- shared predicates
\* the error text of the one failure line printed, <<>> if there is none
ErrorOf(line) == IF line.success THEN <<>> ELSE line.error

\* lines 137-257 have run: the canvas and the motion parameters exist
CanvasBuilt == pc \in {"frames", "encoded", "returned"}

\* the loop body has run for frame_idx - 1: the per-frame locals hold its values
FrameRendered == frame_idx >= 1

SupportedIntensity == intensity \in {"subtle", "normal", "dramatic"}

\* failures of the pipeline stages, as main() sees them
ImageReadFailed == exc = <<"cannot identify image file">>
ModelLoadFailed == exc = <<"model load failed">>
ModelFailed == exc = <<"depth estimation failed">>
LayersFailed == exc = <<"layer construction failed">>
RenderFailed == exc = <<"frame rendering failed">>
EncoderFailed == encoder_calls = 1 /\ returncode # 0 /\ pc \in {"raised", "exit"}

\* ----------------------------------------------------------------- claims

\* C1 (as claimed): a malformed JSON option string ends the process with a
\* non-zero exit code and one JSON failure line on standard output whose
\* message is the decode error, and no generation stage is started.
C1_MalformedOptionsReported ==
    (pc = "exit" /\ exc = <<"JSONDecodeError">>) =>
        /\ exit_code # 0
        /\ Len(stdout) = 1
        /\ ~stdout[1].success
        /\ ErrorOf(stdout[1]) = <<"JSONDecodeError">>
        /\ model_calls = 0 /\ encoder_calls = 0 /\ temp_dir = "none"
        /\ frame_paths = <<>>

\* C2 (as claimed): for every direction, intensity and zoom, frame 0 has
\* bg_offset = (0,0), fg_offset = (0,0) and zoom_scale = 1.0.
C2_FrameZeroAtRest ==
    (frame_idx = 1) =>
        /\ bg_offset_x = 0 /\ bg_offset_y = 0
        /\ fg_offset_x = 0 /\ fg_offset_y = 0
        /\ current_zoom = SCALE

\* C2 (amended): frame 0 has bg_offset = (0,0) and fg_offset = (0,0), and its
\* zoom_scale is zoom_start: 1.0 for zoom none, in or an unrecognized value, and
\* 1 + 0.15 * intensity_mult (1.075, 1.15, 1.225) for zoom out.
C2_FrameZeroAtStart ==
    (frame_idx = 1) =>
        /\ bg_offset_x = 0 /\ bg_offset_y = 0
        /\ fg_offset_x = 0 /\ fg_offset_y = 0
        /\ zoom # "out" => current_zoom = SCALE
        /\ zoom = "out" =>
              current_zoom = CASE intensity = "subtle" -> 1075000
                               [] intensity = "dramatic" -> 1225000
                               [] OTHER -> 1150000

C2_Witness ==
    /\ frame_idx = 1 /\ total_frames = 1
    /\ zoom = "out" /\ intensity = "dramatic" /\ direction = "left"
    /\ current_zoom = 1225000 /\ bg_offset_x = 0 /\ fg_offset_x = 0

\* C3: a non-zero exit status of the encoder ends the run with exactly one JSON
\* line, success=false, whose error text contains the encoder's diagnostic
\* output, and a non-zero exit code; success=true and exit code 0 are emitted
\* only when the encoder returned status 0.
C3_EncoderFailureIsFatal ==
    /\ Len(stdout) <= 1
    /\ (pc = "exit" /\ encoder_calls = 1 /\ returncode # 0) =>
          /\ Len(stdout) = 1
          /\ ~stdout[1].success
          /\ \E k \in DOMAIN ErrorOf(stdout[1]) :
                ErrorOf(stdout[1])[k] = result_stderr
          /\ exit_code # 0
    /\ \A k \in DOMAIN stdout :
          stdout[k].success => (encoder_calls = 1 /\ returncode = 0)
    /\ exit_code = 0 =>
          /\ encoder_calls = 1 /\ returncode = 0
          /\ stdout = <<[success |-> TRUE, output |-> "output_path"]>>

C3_Witness ==
    /\ pc = "exit" /\ encoder_calls = 1 /\ returncode = 2
    /\ result_stderr = "diag_b"
    /\ stdout = <<[success |-> FALSE, error |-> <<"FFmpeg failed: ", "diag_b">>]>>
    /\ exit_code = 1

\* C4: once generate_parallax_video has returned or raised, the temporary
\* directory, if it was created, and every frame file in it are gone; while
\* the block is running, up to and including the encoder call, the directory
\* and the frames written so far exist; a normal return deletes it only after
\* the encoder call.
C4_TempDirReleased ==
    /\ pc \in {"build", "frames", "encoded"} =>
          /\ temp_dir = "live"
          /\ frame_files = {frame_paths[k] : k \in DOMAIN frame_paths}
    /\ pc \in {"returned", "raised", "exit"} =>
          /\ temp_dir \in {"none", "deleted"}
          /\ frame_files = {}
    /\ (temp_dir = "deleted" /\ exc = <<>>) => encoder_calls = 1

C4_Witness ==
    /\ pc = "raised" /\ RenderFailed
    /\ Len(frame_paths) = 2
    /\ temp_dir = "deleted" /\ frame_files = {}

\* C5: the frames written are 0, 1, ... in increasing order, each once; the
\* encoder is invoked at most once, only after all N = int(duration * fps)
\* frames are written, and exactly once in a run that succeeds; duration 1.0
\* at 2 fps gives 2 frames, duration 2.0 at 24 fps gives 48.
C5_FramesInOrderThenEncode ==
    /\ \A k \in DOMAIN frame_paths : frame_paths[k] = k - 1
    /\ Len(frame_paths) = frame_idx
    /\ Len(frame_paths) <= (duration * fps) \div SCALE
    /\ encoder_calls <= 1
    /\ encoder_calls = 1 =>
          /\ Len(frame_paths) = (duration * fps) \div SCALE
          /\ (duration = SCALE /\ fps = 2) => Len(frame_paths) = 2
          /\ (duration = 2 * SCALE /\ fps = 24) => Len(frame_paths) = 48
    /\ pc = "encoded" => frame_files = 0..(((duration * fps) \div SCALE) - 1)
    /\ pc = "returned" => encoder_calls = 1

C5_Witness ==
    /\ pc = "encoded" /\ encoder_calls = 1
    /\ duration = 2 * SCALE /\ fps = 24
    /\ frame_paths[48] = 47 /\ Len(frame_paths) = 48

\* C6: for every supported intensity and every even output size the canvas is
\* at least the output size plus 2 * (3 * speed) in both dimensions, speed the
\* larger of the two layer speeds, and strictly larger than the output frame.
C6_CanvasCoversPan ==
    (CanvasBuilt /\ SupportedIntensity) =>
        /\ FloatOf(bg_scaled_w) >= FloatOf(width) + 2 * (3 * Max(fg_speed, bg_speed))
        /\ FloatOf(bg_scaled_h) >= FloatOf(height) + 2 * (3 * Max(fg_speed, bg_speed))
        /\ Max(fg_speed, bg_speed) >= 20 * SCALE
        /\ bg_scaled_w > width
        /\ bg_scaled_h > height

C6_Witness ==
    /\ CanvasBuilt /\ intensity = "dramatic"
    /\ width = 2 /\ height = 2
    /\ pad_x = 180 /\ bg_scaled_w = 398 /\ bg_scaled_h = 398

\* one more pass of the frame loop
NextFrame == frame_idx >= 1 /\ frame_idx' = frame_idx + 1

C7_Endpoints ==
    /\ (FrameRendered /\ zoom = "out") =>
          /\ current_zoom >= SCALE
          /\ (frame_idx = total_frames /\ total_frames >= 2) => current_zoom = SCALE
    /\ (FrameRendered /\ zoom = "in" /\ intensity = "dramatic"
          /\ total_frames = 48) =>
          /\ frame_idx = 1 => current_zoom = SCALE
          /\ frame_idx = 48 => current_zoom = 1225000

C7_Steps ==
    [][NextFrame =>
          /\ eased_t' >= eased_t
          /\ Abs(bg_offset_x') >= Abs(bg_offset_x)
          /\ Abs(bg_offset_y') >= Abs(bg_offset_y)
          /\ Abs(fg_offset_x') >= Abs(fg_offset_x)
          /\ Abs(fg_offset_y') >= Abs(fg_offset_y)
          /\ zoom # "out" =>
                Abs(current_zoom' - SCALE) >= Abs(current_zoom - SCALE)
          /\ zoom = "out" =>
                Abs(current_zoom' - SCALE) <= Abs(current_zoom - SCALE)
          /\ (zoom = "in" /\ intensity = "dramatic" /\ total_frames = 48) =>
                current_zoom' > current_zoom]_vars

C8_ForegroundFaster ==
    CanvasBuilt =>
        /\ fg_speed > bg_speed
        /\ bg_speed > 0

C8_Witness ==
    /\ CanvasBuilt /\ intensity = "other"
    /\ fg_speed = 40 * SCALE /\ bg_speed = 15 * SCALE

\* C9: the depth model is invoked at most once, and exactly once before the
\* temporary directory exists, a frame is written or the encoder runs; the
\* encoder is invoked at most once; after a failure of the image read, the
\* depth model, layer construction, frame rendering or the encoder no later
\* stage has run, nothing runs on, and the process ends with the failure line
\* of the top-level handler and exit code 1.
C9_NoRetryAllOrNothing ==
    /\ model_calls <= 1 /\ encoder_calls <= 1
    /\ (temp_dir # "none" \/ frame_paths # <<>> \/ encoder_calls > 0) =>
          model_calls = 1
    /\ encoder_calls = 1 => exc \in {<<>>, FFmpegFailed(result_stderr)}
    /\ (ImageReadFailed \/ ModelLoadFailed) =>
          model_calls = 0 /\ temp_dir = "none"
    /\ ModelFailed => model_calls = 1 /\ temp_dir = "none"
    /\ (ImageReadFailed \/ ModelLoadFailed \/ ModelFailed \/ LayersFailed) =>
          frame_paths = <<>> /\ encoder_calls = 0
    /\ RenderFailed => encoder_calls = 0
    /\ (ImageReadFailed \/ ModelLoadFailed \/ ModelFailed \/ LayersFailed
          \/ RenderFailed \/ EncoderFailed) =>
          /\ pc \in {"raised", "exit"}
          /\ pc = "exit" =>
                /\ stdout = <<[success |-> FALSE, error |-> exc]>>
                /\ exit_code = 1
                /\ ~uncaught
    /\ exit_code = 0 => model_calls = 1 /\ encoder_calls = 1

C9_Witness ==
    /\ pc = "exit" /\ ModelFailed
    /\ model_calls = 1 /\ encoder_calls = 0 /\ frame_paths = <<>>
    /\ stdout = <<[success |-> FALSE, error |-> <<"depth estimation failed">>]>>

\* C10: for every direction, supported intensity, output size and frame, the
\* crop origin bg_center_offset - bg_offset is already inside
\* [0, canvas - output], so the clamp changes nothing and the crop rectangle
\* lies inside the canvas.
C10_ClampNeverTriggers ==
    (FrameRendered /\ SupportedIntensity) =>
        /\ crop_x = bg_center_offset_x - bg_offset_x
        /\ crop_y = bg_center_offset_y - bg_offset_y
        /\ 0 <= bg_center_offset_x - bg_offset_x
        /\ bg_center_offset_x - bg_offset_x <= bg_scaled_w - width
        /\ 0 <= bg_center_offset_y - bg_offset_y
        /\ bg_center_offset_y - bg_offset_y <= bg_scaled_h - height
        /\ crop_x + width <= bg_scaled_w
        /\ crop_y + height <= bg_scaled_h

C10_Witness ==
    /\ FrameRendered /\ direction = "left" /\ intensity = "dramatic"
    /\ width = 2 /\ bg_offset_x = -22
    /\ crop_x = bg_center_offset_x + 22
    /\ crop_x <= bg_scaled_w - width

\* the zoom step (lines 291-299) ran for the frame just rendered
ZoomStepRan == FrameRendered /\ current_zoom # SCALE

\* C11: for every zoom setting, intensity and frame, zoom_scale lies between
\* zoom_start and zoom_end and is at least 1.0; whenever the zoom step runs the
\* rescaled frame is at least as large as the output, the centre-crop origin
\* (left, top) is non-negative, and the crop window of output size lies inside
\* the rescaled frame.
C11_ZoomCropInsideFrame ==
    /\ FrameRendered =>
          /\ Min(zoom_start, zoom_end) <= current_zoom
          /\ current_zoom <= Max(zoom_start, zoom_end)
          /\ current_zoom >= SCALE
    /\ ZoomStepRan =>
          /\ zoomed_w >= width /\ zoomed_h >= height
          /\ left >= 0 /\ top >= 0
          /\ left + width <= zoomed_w
          /\ top + height <= zoomed_h

C11_Witness ==
    /\ ZoomStepRan /\ zoom = "out" /\ intensity = "dramatic"
    /\ width = 640 /\ height = 480
    /\ frame_idx = 1 /\ current_zoom = 1225000
    /\ zoomed_w = 784 /\ zoomed_h = 588
    /\ left = 72 /\ top = 54

====
